---- MODULE Spec2Model ----
(***************************************************************************)
(* Model of the notes application in src/notes_frontend/src/App.js.        *)
(*                                                                         *)
(* The App component holds three pieces of React state (notes, selectedId, *)
(* query), mirrors notes into localStorage from an effect, and renders a   *)
(* NoteEditor for the selected note.  The NoteEditor holds a title/content *)
(* buffer and a 200 ms timeout that pushes the buffer to updateNote.       *)
(*                                                                         *)
(* An action below is a DOM event handler together with the React render   *)
(* and the effects that follow it, which React runs before anything else.  *)
(* A timeout callback only enqueues its update; the render of that update  *)
(* is an action of its own, since React schedules it as a later task and a *)
(* DOM event may be handled in between.  The effects of a render that no   *)
(* DOM event caused (the first render, the render of a timeout's update)   *)
(* are passive and run in a turn after the render: RunEffects.  Text is a  *)
(* sequence of one-character strings, time is in milliseconds, ids are     *)
(* positive integers and 0 stands for null.                                *)
(***************************************************************************)
EXTENDS Integers, Sequences, FiniteSets, TLC

\* ---------------------------------------------------------------- bounds
MaxTicks == 4       \* the clock stops after this many steps; input comes before
MaxCreates == 1     \* how many notes a session creates at most
FilterMaxLen == 3   \* longest saved collection the search is tried on
MaxInputs == 4      \* how many DOM events a session handles at most
MaxCommits == 2     \* the commits of one edit are counted up to this number

\* ------------------------------------------------------------- constants
DEBOUNCE_MS == 200                       \* setTimeout(..., 200)
TimeStep == DEBOUNCE_MS \div 2           \* granularity of the clock

NULL == 0

UNTITLED_NOTE == <<"U", "n", "t", "i", "t", "l", "e", "d", " ", "n", "o", "t", "e">>
EMPTY == << >>

\* values typed into the title input, the content textarea, the search box
TitleInputs == { <<"A">> }
ContentInputs == { <<"x">> }
QueryInputs == { EMPTY, <<" ", "a">> }

\* ------------------------------------------------------------------ text
Upper == [c \in {"A", "B", "S", "U", "W", "X"} |->
            CASE c = "A" -> "a" [] c = "B" -> "b" [] c = "S" -> "s"
              [] c = "U" -> "u" [] c = "W" -> "w" [] c = "X" -> "x"]

\* String.prototype.toLowerCase
toLowerCase(s) == [i \in 1..Len(s) |-> IF s[i] \in DOMAIN Upper THEN Upper[s[i]] ELSE s[i]]

RECURSIVE trimStart(_)
trimStart(s) == IF s # EMPTY /\ Head(s) = " " THEN trimStart(Tail(s)) ELSE s

RECURSIVE trimEnd(_)
trimEnd(s) == IF s # EMPTY /\ s[Len(s)] = " " THEN trimEnd(SubSeq(s, 1, Len(s) - 1)) ELSE s

\* String.prototype.trim
trim(s) == trimEnd(trimStart(s))

\* String.prototype.includes
includes(s, q) == \E k \in 0..(Len(s) - Len(q)) : SubSeq(s, k + 1, k + Len(q)) = q

\* ------------------------------------------------------------------ notes
NoNote == [id |-> NULL, title |-> EMPTY, content |-> EMPTY, updatedAt |-> 0]

Ids(ns) == { ns[i].id : i \in 1..Len(ns) }

\* Array.prototype.sort with (a, b) => b.updatedAt - a.updatedAt: stable,
\* descending by updatedAt.  Insertion of x behind every element that is not
\* older than x.
RECURSIVE insertDesc(_, _)
insertDesc(sorted, x) ==
    IF sorted = << >> THEN << x >>
    ELSE IF Head(sorted).updatedAt >= x.updatedAt
         THEN << Head(sorted) >> \o insertDesc(Tail(sorted), x)
         ELSE << x >> \o sorted

RECURSIVE sortDesc(_)
sortDesc(items) ==
    IF items = << >> THEN << >>
    ELSE insertDesc(sortDesc(SubSeq(items, 1, Len(items) - 1)), items[Len(items)])

\* mutant: the content is not searched
matchesTitleOnly(n, q) == includes(toLowerCase(n.title), q)

matches(n, q) == includes(toLowerCase(n.title), q) \/ includes(toLowerCase(n.content), q)

\* mutant: the sort takes equal notes in the opposite order
filteredNotesUnstable(ns, qry) ==
    LET q == toLowerCase(trim(qry))
        items == IF Len(q) # 0 THEN SelectSeq(ns, LAMBDA n : matches(n, q)) ELSE ns
    IN  sortDesc([i \in 1..Len(items) |-> items[Len(items) + 1 - i]])

filteredNotes(ns, qry) ==
    LET q == toLowerCase(trim(qry))
        items == IF Len(q) # 0 THEN SelectSeq(ns, LAMBDA n : matches(n, q)) ELSE ns
    IN  sortDesc(items)

selectedNote(ns, sel) ==
    IF \E i \in 1..Len(ns) : ns[i].id = sel
    THEN ns[CHOOSE i \in 1..Len(ns) :
              ns[i].id = sel /\ \A j \in 1..(i - 1) : ns[j].id # sel]
    ELSE NoNote

\* mutant: the new note is appended instead of put at the head
createNoteAtEnd(ns, id, t) ==
    ns \o << [id |-> id, title |-> UNTITLED_NOTE, content |-> EMPTY, updatedAt |-> t] >>

createNote(ns, id, t) ==
    << [id |-> id, title |-> UNTITLED_NOTE, content |-> EMPTY, updatedAt |-> t] >> \o ns

\* mutant: removal by index, with the index -1 of an id that is not there
\* taking the last note (splice(findIndex(...), 1))
deleteNoteSplice(ns, id) ==
    IF id \in Ids(ns) THEN SelectSeq(ns, LAMBDA n : n.id # id)
    ELSE SubSeq(ns, 1, Len(ns) - 1)

\* mutant: removes the note and everything in front of it
deleteNoteUpTo(ns, id) ==
    IF id \in Ids(ns)
    THEN SubSeq(ns, 1 + (CHOOSE i \in 1..Len(ns) : ns[i].id = id), Len(ns))
    ELSE ns

deleteNote(ns, id) == SelectSeq(ns, LAMBDA n : n.id # id)

\* mutant: the selection survives the deletion of its note
deleteSelectionKept(sel, id) == sel

\* mutant: the test is the wrong way round (selectedId !== id)
deleteSelectionInverted(sel, id) == IF sel # id THEN NULL ELSE sel

deleteSelection(sel, id) == IF sel = id THEN NULL ELSE sel

\* mutant: the patch is merged into every note
updateNoteAll(ns, id, patch, t) ==
    [i \in 1..Len(ns) |->
        [ns[i] EXCEPT !.title = patch.title, !.content = patch.content,
                      !.updatedAt = t]]

\* mutant: an update of an id that is not there adds the note (upsert)
updateNoteUpsert(ns, id, patch, t) ==
    IF id \in Ids(ns)
    THEN [i \in 1..Len(ns) |->
             IF ns[i].id = id
             THEN [ns[i] EXCEPT !.title = patch.title, !.content = patch.content,
                                !.updatedAt = t]
             ELSE ns[i]]
    ELSE << [id |-> id, title |-> patch.title, content |-> patch.content,
             updatedAt |-> t] >> \o ns

\* mutant: the note is rebuilt from the patch alone ({ ...patch, updatedAt })
updateNoteFromPatch(ns, id, patch, t) ==
    [i \in 1..Len(ns) |->
        IF ns[i].id = id
        THEN [id |-> NULL, title |-> patch.title, content |-> patch.content,
              updatedAt |-> t]
        ELSE ns[i]]

\* mutant: the stamp is reset instead of set to Date.now()
updateNoteOldStamp(ns, id, patch, t) ==
    [i \in 1..Len(ns) |->
        IF ns[i].id = id
        THEN [ns[i] EXCEPT !.title = patch.title, !.content = patch.content,
                           !.updatedAt = 0]
        ELSE ns[i]]

updateNote(ns, id, patch, t) ==
    [i \in 1..Len(ns) |->
        IF ns[i].id = id
        THEN [ns[i] EXCEPT !.title = patch.title, !.content = patch.content,
                           !.updatedAt = t]
        ELSE ns[i]]

\* ---------------------------------------------------------------- storage
\* The item under STORAGE_KEY.  kind is what getItem/JSON.parse make of it:
\* "absent" (getItem gives null), "empty" (the empty string), "malformed"
\* (JSON.parse throws), or the JSON value it holds.
Blob(kind, items) == [kind |-> kind, items |-> items]

JSONStringify(ns) == Blob("array", ns)

\* useState initialiser of notes: the type of the value and, for an array,
\* its elements.
loadNotes(raw) ==
    IF raw.kind \in {"absent", "empty"} THEN [type |-> "array", items |-> << >>]
    ELSE IF raw.kind = "malformed" THEN [type |-> "array", items |-> << >>]
    ELSE [type |-> raw.kind, items |-> raw.items]

\* Rendering App spreads notes into an array and calls notes.find: both
\* throw unless notes is an array.
renderThrows(type) == type # "array"

\* A collection an earlier session saved.
SavedA == [id |-> 1, title |-> <<"S", "h", "o", "p">>, content |-> EMPTY, updatedAt |-> 100]
SavedB == [id |-> 2, title |-> <<"W", "o", "r", "k">>, content |-> <<"a">>, updatedAt |-> 200]
SavedNotes == << SavedA, SavedB >>

InitialBlobs ==
    { Blob("absent", << >>), Blob("empty", << >>), Blob("malformed", << >>),
      Blob("null", << >>), Blob("object", << >>), Blob("number", << >>),
      Blob("array", << >>), Blob("array", SavedNotes) }

\* the session starts when the saved collection was last written
StartTime == SavedB.updatedAt
MaxTime == StartTime + MaxTicks * TimeStep
MaxId == Len(SavedNotes) + MaxCreates
\* the collection is kept to one note more than the saved collection
MaxNotes == Len(SavedNotes) + 1

\* ----------------------------------------------------------------- editor
NoEditor == [id |-> NULL, title |-> EMPTY, content |-> EMPTY]
NoTimer == [at |-> 0, id |-> NULL, title |-> EMPTY, content |-> EMPTY]

\* <NoteEditor key={selectedNote.id} .../>: unmounted when nothing is
\* selected, mounted afresh from the note when the key changes, kept
\* otherwise.
\* mutant: no key on NoteEditor and no reset effect, so the component and its
\* title/content state are reused for the next note
editorAfterRenderNoKey(ed, ns, sel) ==
    LET n == selectedNote(ns, sel)
    IN  IF n = NoNote THEN NoEditor
        ELSE IF ed.id = NULL THEN [id |-> n.id, title |-> n.title, content |-> n.content]
        ELSE [id |-> n.id, title |-> ed.title, content |-> ed.content]

editorAfterRender(ed, ns, sel) ==
    LET n == selectedNote(ns, sel)
    IN  IF n = NoNote THEN NoEditor
        ELSE IF ed.id = n.id THEN ed
        ELSE [id |-> n.id, title |-> n.title, content |-> n.content]

\* The browser's pending timeouts are a set; a timeout is its due time and
\* what its callback closes over: the buffer, and through onChange the id of
\* the selected note.
\* mutant: the cleanup does not clear the timeout
clearTimeoutNot(ts, h) == ts

clearTimeout(ts, h) == ts \ {h}

timeoutFor(ed, t) ==
    [at |-> t + DEBOUNCE_MS, id |-> ed.id, title |-> ed.title, content |-> ed.content]

\* mutant: the effect does not run again while its timeout is pending
\* (title and content missing from its dependencies)
debounceEffectStale(ts, h, ed, t) ==
    IF ed.id = NULL
    THEN [timers |-> clearTimeout(ts, h), handle |-> NoTimer]
    ELSE IF h \in ts /\ h.id = ed.id
    THEN [timers |-> ts, handle |-> h]
    ELSE [timers |-> clearTimeout(ts, h) \cup {timeoutFor(ed, t)},
          handle |-> timeoutFor(ed, t)]

\* mutant: the effect returns no cleanup, so nothing is cleared when the
\* editor unmounts
debounceEffectNoUnmount(ts, h, ed, t) ==
    IF ed.id = NULL
    THEN [timers |-> ts, handle |-> NoTimer]
    ELSE [timers |-> clearTimeout(ts, h) \cup {timeoutFor(ed, t)},
          handle |-> timeoutFor(ed, t)]

\* The debounce effect of NoteEditor, run for editor state ed at time t with
\* pending timeouts ts: the cleanup of the previous run clears the timeout h
\* that run had set, then (unless the editor is unmounted) a new one is set.
debounceEffect(ts, h, ed, t) ==
    IF ed.id = NULL
    THEN [timers |-> clearTimeout(ts, h), handle |-> NoTimer]
    ELSE [timers |-> clearTimeout(ts, h) \cup {timeoutFor(ed, t)},
          handle |-> timeoutFor(ed, t)]

VARIABLES
    storage,      \* localStorage item under STORAGE_KEY
    notesType,    \* JS type of the App state `notes`
    notes,        \* App state `notes` (its elements)
    selectedId,   \* App state `selectedId`
    query,        \* App state `query`
    editor,       \* NoteEditor: bound note id and the title/content state
    timers,       \* pending timeouts
    handle,       \* the timeout the last run of the debounce effect set
    now,          \* Date.now()
    nextId,       \* next id cryptoRandomId returns
    created,      \* number of notes created in this session
    crashed,      \* an uncaught error unmounted the tree
    lastEvent,    \* history: what the last turn did
    expect,       \* history: id -> title/content the operations so far call for
    queued,       \* the setNotes update a timeout callback enqueued, not yet rendered
    pending,      \* the passive effects of the last render have not run yet
    rebased,      \* a create or delete was rendered ahead of the enqueued update
    budget,       \* DOM events the user may still make (Unlimited: any number)
    view,         \* the memoised filteredNotes the Sidebar shows
    session       \* history: the last edit of the bound note and the commits since

vars == << storage, notesType, notes, selectedId, query, editor, timers, handle,
           now, nextId, created, crashed, lastEvent, expect, view, queued, pending,
           rebased, budget, session >>

\* The persist effect: localStorage.setItem(STORAGE_KEY, JSON.stringify(notes))
\* runs when notes changed; st is the item before, accepted whether the
\* storage takes the write.
persistEffect(st, ns, notesChanged, accepted) ==
    IF notesChanged /\ accepted THEN JSONStringify(ns) ELSE st

\* op and its arguments (id, title, content), the blob a load read (raw),
\* whether id was the selection before the turn (wasSelected), whether the
\* turn unbound an editor whose buffer held edits the collection did not have
\* (dropped), the number of localStorage.setItem calls the turn made (writes)
\* and whether one of them was rejected.
Event(op, id, title, content) ==
    [op |-> op, id |-> id, title |-> title, content |-> content, raw |-> "",
     wasSelected |-> id # NULL /\ id = selectedId, dropped |-> FALSE,
     writes |-> 0, rejected |-> FALSE]

\* What the sequence of operations calls for, kept apart from the code's
\* array operations: create adds the defaults, delete removes the id, an
\* update of a present id replaces title and content.
ExpectAfter(ex, ev) ==
    CASE ev.op = "create" ->
            [i \in DOMAIN ex \cup {ev.id} |->
                IF i = ev.id THEN [title |-> UNTITLED_NOTE, content |-> EMPTY] ELSE ex[i]]
      [] ev.op = "delete" -> [i \in DOMAIN ex \ {ev.id} |-> ex[i]]
      [] ev.op = "commit" ->
            [i \in DOMAIN ex |->
                IF i = ev.id THEN [title |-> ev.title, content |-> ev.content] ELSE ex[i]]
      [] OTHER -> ex

\* editAt: when the buffer was last edited (-1: not since the editor was
\* bound); commits: updates of the bound note rendered since, of timeouts set
\* since, counted up to MaxCommits; disturbed: App rendered since for
\* another reason.
NoSession == [editAt |-> -1, commits |-> 0, disturbed |-> FALSE]

\* the editor's buffer differs from the note it is bound to
Unsaved ==
    /\ editor.id # NULL
    /\ LET n == selectedNote(notes, editor.id)
       IN  n.title # editor.title \/ n.content # editor.content

\* The useState initialisers and the first render.  The persist effect of
\* that render is passive and has not run yet: storage is the item as found.
InitFrom(raw) ==
    LET loaded == loadNotes(raw)
        throws == renderThrows(loaded.type)
    IN  /\ notesType = loaded.type
        /\ notes = loaded.items
        /\ crashed = throws
        /\ storage = raw
        /\ pending = IF throws THEN "none" ELSE "mount"
        /\ rebased = FALSE
        /\ selectedId = NULL
        /\ query = EMPTY
        /\ view = IF throws THEN << >> ELSE filteredNotes(loaded.items, EMPTY)
        /\ editor = NoEditor
        /\ timers = {}
        /\ handle = NoTimer
        /\ queued = NoTimer
        /\ now = StartTime
        /\ nextId = Len(loaded.items) + 1
        /\ created = 0
        /\ lastEvent = [op |-> "load", id |-> NULL, title |-> EMPTY,
                        content |-> EMPTY, raw |-> raw.kind,
                        wasSelected |-> FALSE, dropped |-> FALSE,
                        writes |-> 0, rejected |-> FALSE]
        /\ expect = [i \in Ids(loaded.items) |->
                        [title |-> selectedNote(loaded.items, i).title,
                         content |-> selectedNote(loaded.items, i).content]]
        /\ session = NoSession

Init == \E raw \in InitialBlobs : InitFrom(raw) /\ budget = MaxInputs

\* A render of App after setNotes/setSelectedId/setQuery, followed by its
\* effects: the persist effect when notes changed, and the debounce effect of
\* the editor (onChange is a new function on every render of App, so the
\* effect runs again).  ts is the set of pending timeouts when the turn
\* renders.  A rejected write throws out of the persist effect, which
\* unmounts the tree.
Commit(ns, sel, qry, ts, notesChanged, accepted, ev) ==
    LET failed == notesChanged /\ ~accepted
        ed == IF failed THEN NoEditor ELSE editorAfterRender(editor, ns, sel)
        eff == debounceEffect(ts, handle, ed, now)
    IN  /\ notes' = ns
        /\ selectedId' = sel
        /\ query' = qry
        /\ view' = filteredNotes(ns, qry)
        /\ queued' = IF failed \/ ev.op = "commit" THEN NoTimer ELSE queued
        /\ pending' = "none"
        /\ rebased' = IF queued' = NoTimer THEN FALSE
                       ELSE IF ev.op \in {"create", "delete"} THEN TRUE
                       ELSE rebased
        /\ storage' = persistEffect(storage, ns, notesChanged, accepted)
        /\ crashed' = failed
        /\ editor' = ed
        /\ timers' = eff.timers
        /\ handle' = eff.handle
        /\ lastEvent' = [ev EXCEPT !.dropped = Unsaved /\ ed.id # editor.id,
                                   !.writes = IF notesChanged THEN 1 ELSE 0,
                                   !.rejected = failed]
        /\ expect' = ExpectAfter(expect, ev)
        /\ session' = IF ed.id # editor.id THEN NoSession
                       ELSE IF session.editAt < 0 THEN session
                       ELSE IF /\ ev.op = "commit"
                               /\ ev.id = ed.id
                               /\ queued.at >= session.editAt + DEBOUNCE_MS
                            THEN [session EXCEPT !.commits =
                                     IF @ < MaxCommits THEN @ + 1 ELSE @]
                            ELSE [session EXCEPT !.disturbed = TRUE]
        /\ UNCHANGED notesType

\* one more DOM event is handled
Unlimited == MaxInputs + 1
Spend ==
    /\ budget # 0
    /\ budget' = IF budget = Unlimited THEN budget ELSE budget - 1

\* An update that React passed over in a render (the timeout's update, when
\* a DOM event is rendered ahead of it) stays in the queue of the notes state
\* together with every update made after it, and each render of App until
\* the passed-over update is rendered runs those later updaters again: the
\* create ([n, ...prev]) and delete (prev.filter) updaters return a new array
\* of the same notes, so notes changes identity and the persist effect runs.
Rerun == queued # NoTimer /\ rebased

\* ids the Sidebar lists
listed == Ids(filteredNotes(notes, query))

CreateNote ==
    /\ ~crashed
    /\ pending = "none"
    /\ Spend
    /\ created < MaxCreates
    /\ Len(notes) < MaxNotes
    /\ \E accepted \in BOOLEAN :
          Commit(createNote(notes, nextId, now), nextId, query, timers, TRUE,
                 accepted, Event("create", nextId, EMPTY, EMPTY))
    /\ nextId' = nextId + 1
    /\ created' = created + 1
    /\ UNCHANGED now

\* the trash button of a listed note, or the Delete button of the editor
DeleteNote ==
    /\ ~crashed
    /\ pending = "none"
    /\ Spend
    /\ \E id \in listed \cup (Ids(notes) \cap {editor.id}), accepted \in BOOLEAN :
          Commit(deleteNote(notes, id), deleteSelection(selectedId, id), query,
                 timers, TRUE, accepted, Event("delete", id, EMPTY, EMPTY))
    /\ UNCHANGED << now, nextId, created >>

SelectNote ==
    /\ ~crashed
    /\ pending = "none"
    /\ Spend
    /\ \E id \in listed, accepted \in BOOLEAN :
          IF id = selectedId /\ ~Rerun
          THEN \* setSelectedId with the same value: nothing is rendered
               /\ accepted
               /\ lastEvent' = Event("select", id, EMPTY, EMPTY)
               /\ UNCHANGED << storage, notesType, notes, selectedId, query,
                               editor, timers, handle, crashed, expect, view,
                               queued, pending, rebased, session >>
          ELSE /\ Rerun \/ accepted
               /\ Commit(notes, id, query, timers, Rerun, accepted,
                         Event("select", id, EMPTY, EMPTY))
    /\ UNCHANGED << now, nextId, created >>

SetQuery ==
    /\ ~crashed
    /\ pending = "none"
    /\ Spend
    /\ \E q \in QueryInputs, accepted \in BOOLEAN :
          /\ q # query
          /\ Rerun \/ accepted
          /\ Commit(notes, selectedId, q, timers, Rerun, accepted,
                    Event("query", NULL, EMPTY, EMPTY))
    /\ UNCHANGED << now, nextId, created >>

\* setTitle / setContent: only NoteEditor renders again, and its debounce
\* effect runs because title or content changed.
Edit(ed) ==
    LET eff == debounceEffect(timers, handle, ed, now)
    IN  /\ editor' = ed
        /\ timers' = eff.timers
        /\ handle' = eff.handle
        /\ lastEvent' = Event("edit", ed.id, ed.title, ed.content)
        /\ session' = [editAt |-> now, commits |-> 0, disturbed |-> FALSE]
        /\ UNCHANGED << storage, notesType, notes, selectedId, query, now, nextId,
                        created, crashed, expect, view, queued,
                        pending, rebased >>

EditTitle ==
    /\ ~crashed
    /\ pending = "none"
    /\ Spend
    /\ editor.id # NULL
    /\ \E v \in TitleInputs :
          /\ v # editor.title
          /\ Edit([editor EXCEPT !.title = v])

EditContent ==
    /\ ~crashed
    /\ pending = "none"
    /\ Spend
    /\ editor.id # NULL
    /\ \E v \in ContentInputs :
          /\ v # editor.content
          /\ Edit([editor EXCEPT !.content = v])

\* A due timeout runs: onChange({title, content}) -> updateNote(id, patch)
\* -> setNotes(updater).  The callback only enqueues the update and returns;
\* React renders it in a task of its own (React 18 and later), so a DOM event
\* that arrives first is handled, and rendered, before the update is.
TimerFires ==
    /\ ~crashed
    /\ pending = "none"
    /\ queued = NoTimer
    /\ \E tm \in timers :
          /\ tm.at <= now
          /\ timers' = timers \ {tm}
          /\ queued' = tm
          /\ lastEvent' = Event("timeout", tm.id, tm.title, tm.content)
    /\ UNCHANGED << storage, notesType, notes, selectedId, query, editor, handle,
                    now, nextId, created, crashed, expect, view, pending, rebased,
                    budget,
                    session >>

\* The render React scheduled for the enqueued update: the updater of
\* updateNote runs on the notes as they are now and App renders.  It follows
\* the callback at once unless a DOM event comes first (with React 17 and
\* earlier it always follows at once).  The update came from a timeout, not
\* from a DOM event, so the effects of this render are passive: they run in a
\* later turn (RunEffects), and until then storage and the timeouts are as
\* they were.  The selection and the ids are the same, so NoteEditor keeps
\* its instance and its state.
RenderUpdate ==
    /\ ~crashed
    /\ pending = "none"
    /\ queued # NoTimer
    /\ notes' = updateNote(notes, queued.id, queued, now)
    /\ view' = filteredNotes(notes', query)
    /\ pending' = "update"
    /\ rebased' = FALSE
    /\ lastEvent' = Event("render", queued.id, queued.title, queued.content)
    /\ expect' = ExpectAfter(expect, Event("commit", queued.id, queued.title,
                                          queued.content))
    /\ UNCHANGED << storage, notesType, selectedId, query, editor, timers, handle,
                    now, nextId, created, crashed, queued, budget, session >>

\* The passive effects of the last render run: the persist effect (notes is
\* a new value after the first render and after an update) and, under a
\* bound editor, the debounce effect.  They run in a turn after the render
\* and before anything else: React flushes pending effects before it renders
\* the next event, and no timeout is due in between.
RunEffects ==
    /\ ~crashed
    /\ pending # "none"
    /\ \E accepted \in BOOLEAN :
          Commit(notes, selectedId, query, timers, TRUE, accepted,
                 IF pending = "mount"
                 THEN Event("mount", NULL, EMPTY, EMPTY)
                 ELSE Event("commit", queued.id, queued.title, queued.content))
    /\ UNCHANGED << now, nextId, created, budget >>

\* Time passes; a timeout that is due and an update that is enqueued run first.
Tick ==
    /\ ~crashed
    /\ pending = "none"
    /\ now < MaxTime
    /\ \A tm \in timers : tm.at > now
    /\ queued = NoTimer
    /\ now' = now + TimeStep
    /\ lastEvent' = Event("tick", NULL, EMPTY, EMPTY)
    /\ UNCHANGED << storage, notesType, notes, selectedId, query, editor, timers,
                    handle, nextId, created, crashed, expect, view, queued,
                    pending, rebased, budget, session >>

Next ==
    \/ CreateNote
    \/ DeleteNote
    \/ SelectNote
    \/ SetQuery
    \/ EditTitle
    \/ EditContent
    \/ TimerFires
    \/ RenderUpdate
    \/ RunEffects
    \/ Tick

Spec == Init /\ [][Next]_vars

\* --------------------------------------------------------- timers do run
\* The browser runs a timeout that is due, React renders an update that is
\* enqueued and runs pending effects, and time passes without end.  Up to
\* MaxTime the clock counts as in Tick.  From MaxTime on time still passes,
\* but the count stops: now stays at MaxTime, and the due time of the pending
\* timeout and the time of the last edit move back by one step instead,
\* which is the same run with the time axis shifted (updatedAt written from
\* then on reads MaxTime).  A last edit more than a debounce interval ago is
\* kept as one debounce interval ago.  The app starts on an empty saved
\* collection.
FairInit == InitFrom(Blob("array", << >>)) /\ budget = Unlimited

Earlier(tm) == [tm EXCEPT !.at = @ - TimeStep]

TickOn ==
    /\ ~crashed
    /\ pending = "none"
    /\ \A tm \in timers : tm.at > now
    /\ queued = NoTimer
    /\ lastEvent' = Event("tick", NULL, EMPTY, EMPTY)
    /\ IF now < MaxTime
       THEN /\ now' = now + TimeStep
            /\ UNCHANGED << timers, handle, session >>
       ELSE /\ now' = now
            /\ timers' = { Earlier(tm) : tm \in timers }
            /\ handle' = IF handle = NoTimer THEN NoTimer ELSE Earlier(handle)
            /\ session' = IF session.editAt < 0 THEN session
                           ELSE [session EXCEPT !.editAt =
                                    IF @ - TimeStep < MaxTime - DEBOUNCE_MS
                                    THEN MaxTime - DEBOUNCE_MS ELSE @ - TimeStep]
    /\ UNCHANGED << storage, notesType, notes, selectedId, query, editor, nextId,
                    created, crashed, expect, view, queued, pending, rebased, budget >>

FairNext ==
    \/ CreateNote
    \/ DeleteNote
    \/ SelectNote
    \/ SetQuery
    \/ EditTitle
    \/ EditContent
    \/ TimerFires
    \/ RenderUpdate
    \/ RunEffects
    \/ TickOn

FairSpec == FairInit /\ [][FairNext]_vars /\ WF_vars(TimerFires) /\ WF_vars(RenderUpdate)
                  /\ WF_vars(RunEffects) /\ WF_vars(TickOn)

\* ------------------------------------------------------------ the search box
\* App started on a saved collection, and the user typing into the search box:
\* filteredNotes over collections with notes of equal updatedAt, upper and
\* lower case, and matches in the title, in the content, in both and in none.
FilterPool ==
    { SavedA, SavedB,
      [id |-> 3, title |-> <<"A", "B">>, content |-> <<"W", "S">>, updatedAt |-> 200],
      [id |-> 4, title |-> <<"x">>, content |-> <<"A", "b">>, updatedAt |-> 100] }

FilterCollections ==
    { c \in UNION { [1..n -> FilterPool] : n \in 0..FilterMaxLen } :
        \A i, j \in 1..Len(c) : i # j => c[i].id # c[j].id }

FilterQueries ==
    { EMPTY, <<" ">>, <<"a", "b">>, <<" ", "B", " ">>, <<"S">>, <<"w">> }

FilterInit == \E c \in FilterCollections : InitFrom(Blob("array", c)) /\ budget = Unlimited

FilterSetQuery ==
    /\ ~crashed
    /\ pending = "none"
    /\ Spend
    /\ \E q \in FilterQueries :
          /\ q # query
          /\ Commit(notes, selectedId, q, timers, FALSE, TRUE,
                    Event("query", NULL, EMPTY, EMPTY))
    /\ UNCHANGED << now, nextId, created >>

FilterNext == FilterSetQuery \/ RunEffects

FilterSpec == FilterInit /\ [][FilterNext]_vars

TypeOK ==
    /\ notesType \in {"array", "null", "object", "number"}
    /\ selectedId \in 0..MaxId
    /\ now \in StartTime..MaxTime
    /\ crashed \in BOOLEAN
    /\ Cardinality(timers) <= 1
    /\ queued = NoTimer \/ queued.id \in 1..MaxId
    /\ pending \in {"none", "mount", "update"}
    /\ pending = "update" => queued # NoTimer
    /\ rebased \in BOOLEAN
    /\ rebased => queued # NoTimer
    /\ budget \in 0..MaxInputs
    /\ session.commits \in 0..MaxCommits

\* =================================================================== claims

NoteOf(ns, id) == selectedNote(ns, id)

\* C1: after any sequence of create, update and delete operations the
\* collection holds exactly the notes created and not deleted since, one
\* entry per id, each with the title and content of the last update applied
\* to its id (the creation defaults if none was applied).
C1_CollectionFollowsOperations ==
    /\ Ids(notes) = DOMAIN expect
    /\ Len(notes) = Cardinality(DOMAIN expect)
    /\ \A i \in 1..Len(notes) :
          /\ notes[i].title = expect[notes[i].id].title
          /\ notes[i].content = expect[notes[i].id].content

\* a note was created, another was updated by a commit, and one was deleted
C1_Witness ==
    /\ lastEvent.op = "delete"
    /\ created = 1
    /\ \E i \in 1..Len(notes) : notes[i].id = SavedA.id /\ notes[i].title # SavedA.title

\* C2 as stated: after the last edit of a burst, with the note staying bound
\* and nothing else happening, exactly one commit follows, 200 ms after that
\* edit, and no further commit until the next edit.
C2_OneCommitPerBurst ==
    (session.editAt >= 0 /\ ~session.disturbed) =>
        /\ session.commits <= 1
        /\ (lastEvent.op = "commit" /\ session.commits = 1
               => now = session.editAt + DEBOUNCE_MS)

\* C3: a timeout expires no less than 200 ms after the last edit and passes
\* the buffer as it is at that moment to updateNote; the update is applied to
\* the collection with exactly these values when it is rendered, and the
\* write that follows puts that collection into the persisted blob.  So the
\* buffer of an edit that is followed by another one within 200 ms is never
\* passed to updateNote.
C3_CommitCarriesCurrentBuffer ==
    [][/\ lastEvent'.op = "timeout" =>
             /\ lastEvent'.id = editor.id
             /\ lastEvent'.title = editor.title
             /\ lastEvent'.content = editor.content
             /\ queued' = [at |-> queued'.at, id |-> editor.id,
                           title |-> editor.title, content |-> editor.content]
             /\ (session.editAt >= 0 => now >= session.editAt + DEBOUNCE_MS)
       /\ lastEvent'.op = "render" =>
             /\ lastEvent'.id = queued.id
             /\ lastEvent'.title = queued.title
             /\ lastEvent'.content = queued.content
             /\ (queued.id \in Ids(notes) =>
                    /\ NoteOf(notes', queued.id).title = queued.title
                    /\ NoteOf(notes', queued.id).content = queued.content)
       /\ lastEvent'.op = "commit" =>
             /\ lastEvent'.id = queued.id
             /\ lastEvent'.title = queued.title
             /\ lastEvent'.content = queued.content
             /\ notes' = notes
             /\ (queued.id \in Ids(notes) =>
                    /\ NoteOf(notes', queued.id).title = queued.title
                    /\ NoteOf(notes', queued.id).content = queued.content)
             /\ (~lastEvent'.rejected => storage'.items = notes')]_vars

\* two edits less than 200 ms apart, then a commit of the second one's buffer
C3_Witness ==
    /\ lastEvent.op = "commit"
    /\ session.commits = 1
    /\ lastEvent.title = <<"A">>
    /\ lastEvent.content = <<"x">>
    /\ now = session.editAt + DEBOUNCE_MS
    /\ now = StartTime + DEBOUNCE_MS + TimeStep

\* C4: when the bound note is deleted or another note is selected, the
\* pending timeout is dropped: no timeout stays pending for a note the editor
\* is not bound to, a timeout that expires is the bound note's, and the outgoing
\* note, if it still exists, is left as the collection had it, so the edits
\* the buffer held are lost.
C4_UnbindDropsPendingCommit ==
    [][/\ \A tm \in timers' : tm.id = editor'.id
       /\ (lastEvent'.op = "timeout" => lastEvent'.id = editor.id)
       /\ (   (/\ lastEvent'.op \in {"delete", "select", "create"}
                /\ editor.id # NULL
                /\ selectedNote(notes', selectedId').id # editor.id)
            => (/\ \A tm \in timers' : tm.id # editor.id
                /\ (editor.id \in Ids(notes')
                      => NoteOf(notes', editor.id) = NoteOf(notes, editor.id))))]_vars

\* another note was selected while the buffer held edits that were not
\* committed; the outgoing note still has its old title and content
C4_Witness ==
    /\ lastEvent.op = "select"
    /\ lastEvent.dropped
    /\ selectedId # NULL
    /\ editor.id = selectedId
    /\ Len(notes) >= 2

\* C5 as stated: create, update and delete each make exactly one write, of
\* the whole collection as it is after the mutation, so that the persisted
\* blob equals the collection once the operation's effects have run, whenever
\* the storage took the write; the write of an update comes after the render
\* that changed the collection, with nothing in between; select, a change of
\* the query, an edit of the buffer and the passing of time make no write.
C5_OneWritePerMutation ==
    [][/\ (lastEvent'.op \in {"create", "delete", "commit"} =>
             /\ lastEvent'.writes = 1
             /\ (~lastEvent'.rejected => storage' = JSONStringify(notes')))
       /\ (lastEvent'.op = "render" =>
             /\ lastEvent'.writes = 0
             /\ storage' = storage
             /\ pending' = "update")
       /\ (lastEvent'.op = "commit" =>
             /\ lastEvent.op = "render"
             /\ pending = "update"
             /\ notes' = notes)
       /\ (pending = "update" => lastEvent'.op = "commit")
       /\ (lastEvent'.op \in {"select", "query", "edit", "tick", "timeout"} =>
             /\ lastEvent'.writes = 0
             /\ storage' = storage
             /\ notes' = notes)
       /\ ((~crashed' /\ pending' = "none") => storage' = JSONStringify(notes'))]_vars

\* C6 as stated: whatever the stored blob is, when it is absent, not
\* parseable or not an array of notes, the initial collection is empty and
\* no error is raised by the load or by a later operation.
C6_LoadFailsSoft ==
    /\ (lastEvent.op = "load" /\ lastEvent.raw # "array" /\ ~lastEvent.rejected
           => notesType = "array" /\ notes = << >> /\ ~crashed)
    /\ (crashed => lastEvent.rejected)

\* C7 as stated: a rejected write does not crash the store; the collection
\* and the selection stay and later operations still take effect.
C7_RejectedWriteIsSurvived == lastEvent.rejected => ~crashed

\* C8: deleting the selected note clears the selection, and selectedNote is
\* none afterwards.
C8_DeleteSelectedClearsSelection ==
    [][lastEvent'.op = "delete" /\ lastEvent'.id = selectedId =>
          /\ selectedId' = NULL
          /\ selectedNote(notes', selectedId') = NoNote]_vars

\* the selected note was deleted
C8_Witness ==
    /\ lastEvent.op = "delete"
    /\ lastEvent.wasSelected
    /\ selectedId = NULL
    /\ Len(notes) >= 1

\* notes without the entry at position k
Without(ns, k) == SubSeq(ns, 1, k - 1) \o SubSeq(ns, k + 1, Len(ns))

\* C9: deleting a note that is not selected leaves the selection as it was
\* and leaves every other note, with all its fields and in the same relative
\* order, in the collection.
C9_DeleteOtherKeepsRest ==
    [][lastEvent'.op = "delete" /\ lastEvent'.id # selectedId =>
          /\ selectedId' = selectedId
          /\ \E k \in 1..Len(notes) :
                /\ notes[k].id = lastEvent'.id
                /\ notes' = Without(notes, k)]_vars

\* a note in the middle of three was deleted while another one was selected
C9_Witness ==
    /\ lastEvent.op = "delete"
    /\ ~lastEvent.wasSelected
    /\ selectedId # NULL
    /\ editor.id = selectedId
    /\ Len(notes) = 2
    /\ lastEvent.id = SavedA.id
    /\ notes[2].id = SavedB.id

\* C10: createNote puts exactly one new note, titled "Untitled note", with
\* empty content and updatedAt the current time, at the head of the
\* collection, leaves the notes that were there as they were, and selects the
\* new note; on an empty collection the new note is the only one.
C10_CreateInsertsAtHead ==
    [][lastEvent'.op = "create" =>
          /\ Len(notes') = Len(notes) + 1
          /\ Head(notes').title = UNTITLED_NOTE
          /\ Head(notes').content = EMPTY
          /\ Head(notes').updatedAt = now
          /\ Head(notes').id \notin Ids(notes)
          /\ Tail(notes') = notes
          /\ selectedId' = Head(notes').id
          /\ (notes = << >> => notes' = << Head(notes') >>)]_vars

\* a note was created in front of the notes a collection already had
C10_Witness ==
    /\ lastEvent.op = "create"
    /\ Len(notes) >= 3
    /\ selectedId = notes[1].id
    /\ notes[1].title = UNTITLED_NOTE

\* ids a caller may hold: those given out so far and one never given out
KnownIds == 1..(MaxId + 1)

\* C11: an update whose id is not in the collection (the note was deleted
\* after its timeout had run) leaves the collection and the selection as they
\* were and raises no error, the write that follows being taken; deleteNote
\* with an id that is not in the collection returns the same notes and leaves
\* the selection, and deleting the same id a second time changes nothing the
\* first time did not.
C11_AbsentIdIsNoOp ==
    [][/\ (lastEvent'.op = "render" /\ lastEvent'.id \notin Ids(notes)) =>
             /\ notes' = notes
             /\ selectedId' = selectedId
             /\ ~crashed'
       /\ (lastEvent'.op = "commit" /\ lastEvent'.id \notin Ids(notes)) =>
             /\ notes' = notes
             /\ selectedId' = selectedId
             /\ (~lastEvent'.rejected => ~crashed')
       /\ \A id \in KnownIds \ Ids(notes') :
             /\ deleteNote(notes', id) = notes'
             /\ deleteSelection(selectedId', id) = selectedId'
       /\ \A id \in KnownIds :
             /\ deleteNote(deleteNote(notes', id), id) = deleteNote(notes', id)
             /\ deleteSelection(deleteSelection(selectedId', id), id)
                   = deleteSelection(selectedId', id)]_vars

\* the update of a note deleted after its timeout had run was rendered over
\* a collection of several notes, one of them selected
C11_Witness ==
    /\ lastEvent.op = "render"
    /\ lastEvent.id \notin Ids(notes)
    /\ lastEvent.id < nextId
    /\ Len(notes) >= 2
    /\ selectedId \in Ids(notes)

\* the query without the blanks around it
Trimmed(s) ==
    LET inked == { i \in 1..Len(s) : s[i] # " " }
    IN  IF inked = {} THEN EMPTY
        ELSE SubSeq(s, CHOOSE i \in inked : \A k \in inked : i <= k,
                       CHOOSE j \in inked : \A k \in inked : k <= j)

\* the same letter, whatever the case
SameLetter(a, b) ==
    \/ a = b
    \/ a \in DOMAIN Upper /\ Upper[a] = b
    \/ b \in DOMAIN Upper /\ Upper[b] = a
    \/ a \in DOMAIN Upper /\ b \in DOMAIN Upper /\ Upper[a] = Upper[b]

\* s holds q as a substring, case ignored
HoldsIgnoringCase(s, q) ==
    \E k \in 0..(Len(s) - Len(q)) : \A i \in 1..Len(q) : SameLetter(s[k + i], q[i])

Wanted(n, q) ==
    q = EMPTY \/ HoldsIgnoringCase(n.title, q) \/ HoldsIgnoringCase(n.content, q)

\* C12: the list shown holds exactly the notes of the collection whose title
\* or content holds the trimmed query, case ignored, each of them once, and
\* all notes when the trimmed query is empty; it is part of the unfiltered list.
C12_FilterKeepsExactlyMatches ==
    ~crashed =>
        LET q == Trimmed(query)
        IN  /\ \A i \in 1..Len(notes) :
                  Wanted(notes[i], q) <=> (\E k \in 1..Len(view) : view[k] = notes[i])
            /\ \A k \in 1..Len(view) : \E i \in 1..Len(notes) : notes[i] = view[k]
            /\ Len(view) = Cardinality({ i \in 1..Len(notes) : Wanted(notes[i], q) })
            /\ \A k \in 1..Len(view) :
                  \E m \in 1..Len(filteredNotes(notes, EMPTY)) :
                      filteredNotes(notes, EMPTY)[m] = view[k]

\* an upper-case query kept one note by its title and one by its content,
\* and dropped two
C12_Witness ==
    /\ lastEvent.op = "query"
    /\ query = <<" ", "B", " ">>
    /\ Len(notes) = 3
    /\ Len(view) = 2
    /\ \E k \in 1..Len(view) : view[k].title = <<"x">>

PosOf(ns, id) == CHOOSE i \in 1..Len(ns) : ns[i].id = id

\* C13: the list shown is in descending order of updatedAt, notes of equal
\* updatedAt are in the order they have in the collection, and working the
\* list out leaves the collection as it was.
C13_FilterSortsStably ==
    [][lastEvent'.op = "query" =>
          /\ notes' = notes
          /\ \A i, j \in 1..Len(view') :
                i < j =>
                  /\ view'[i].updatedAt >= view'[j].updatedAt
                  /\ view'[i].updatedAt = view'[j].updatedAt =>
                        PosOf(notes', view'[i].id) < PosOf(notes', view'[j].id)]_vars

\* three notes shown, the first two of equal updatedAt, from a collection
\* that holds them in another order
C13_Witness ==
    /\ lastEvent.op = "query"
    /\ Len(view) = 3
    /\ view[1].updatedAt = view[2].updatedAt
    /\ view[2].updatedAt > view[3].updatedAt
    /\ notes[1] = view[3]

IdsInOrder(ns) == [i \in 1..Len(ns) |-> ns[i].id]

\* C14: no two notes of the collection have the same id, and an update
\* leaves every note's id as it was.
C14_IdsUniqueAndFixed ==
    [][/\ \A i, j \in 1..Len(notes') : i # j => notes'[i].id # notes'[j].id
       /\ \A i \in 1..Len(notes') : notes'[i].id # NULL
       /\ lastEvent'.op \in {"render", "commit"} =>
             IdsInOrder(notes') = IdsInOrder(notes)
       /\ lastEvent'.op = "create" =>
             IdsInOrder(notes') = << lastEvent'.id >> \o IdsInOrder(notes)]_vars

\* a note created next to the saved ones was updated
C14_Witness ==
    /\ lastEvent.op = "commit"
    /\ ~lastEvent.rejected
    /\ created = 1
    /\ Len(notes) = 3
    /\ lastEvent.id = 3
    /\ NoteOf(notes, 3).title \in TitleInputs

\* C15: a note's updatedAt never goes down; an update sets it to the current
\* time, which is not less than what the note had.
C15_UpdatedAtNeverDecreases ==
    [][/\ \A i \in 1..Len(notes), j \in 1..Len(notes') :
             notes'[j].id = notes[i].id => notes'[j].updatedAt >= notes[i].updatedAt
       /\ (lastEvent'.op = "render" /\ lastEvent'.id \in Ids(notes)) =>
             /\ NoteOf(notes', lastEvent'.id).updatedAt = now'
             /\ now' >= NoteOf(notes, lastEvent'.id).updatedAt]_vars

\* the same note updated a second time, at a later time
C15_Witness ==
    /\ lastEvent.op = "commit"
    /\ session.commits = 2
    /\ now = session.editAt + 2 * DEBOUNCE_MS
    /\ NoteOf(notes, lastEvent.id).updatedAt = now

\* C16: the first commit after an edit comes DEBOUNCE_MS after that edit while
\* the note stays bound, whatever else happens in between that is not an
\* edit: a change of the query or the deletion of another note does not
\* postpone it.
C16_OnlyEditsResetTimer ==
    (/\ lastEvent.op = "commit"
     /\ session.editAt >= 0
     /\ session.commits = 1) => now = session.editAt + DEBOUNCE_MS

\* C17: at most one timeout is pending, it is the one the editor set last for
\* the note it is bound to, and none is pending when no note is bound.
C17_AtMostOneTimer ==
    /\ Cardinality(timers) <= 1
    /\ selectedNote(notes, selectedId) = NoNote => timers = {}
    /\ editor.id = NULL => timers = {}
    /\ \A tm \in timers : tm = handle /\ tm.id = editor.id

\* an edit some time after the note was opened: the timeout set at opening
\* is gone and the one of the edit is pending
C17_Witness ==
    /\ lastEvent.op = "edit"
    /\ now > StartTime
    /\ session.editAt = now
    /\ timers = { timeoutFor(editor, now) }

\* C18: when the editor becomes bound to a note its title and content are
\* those the note has in the collection, and a commit goes to the note the
\* editor was bound to when its timeout expired and to no other note.
C18_BuffersDoNotLeak ==
    [][/\ (editor'.id # NULL /\ editor'.id # editor.id) =>
             /\ editor'.id = selectedId'
             /\ editor'.title = NoteOf(notes', editor'.id).title
             /\ editor'.content = NoteOf(notes', editor'.id).content
       /\ lastEvent'.op = "timeout" =>
             /\ queued'.id = editor.id
             /\ queued'.title = editor.title
             /\ queued'.content = editor.content
       /\ lastEvent'.op \in {"render", "commit"} =>
             \A i \in 1..Len(notes) :
                 notes[i].id # queued.id =>
                     \E j \in 1..Len(notes') : notes'[j] = notes[i]]_vars

\* a note with unsaved typing was left for a newly created one, whose editor
\* shows the new note's title and nothing of the typing
C18_Witness ==
    /\ lastEvent.op = "create"
    /\ lastEvent.dropped
    /\ editor.id = lastEvent.id
    /\ editor.title = UNTITLED_NOTE
    /\ editor.content = EMPTY
    /\ \E tm \in timers : tm.id = editor.id /\ tm.title = UNTITLED_NOTE

\* C20: while no edit has been made since a note was opened, the buffer as
\* it was opened is not committed to the note, and but for an update that
\* was already on its way nothing changes the collection or is written to
\* storage: title, content and updatedAt of the bound note stay as they were.
C20_OpeningChangesNothing ==
    [][(/\ editor.id # NULL
        /\ session.editAt < 0
        /\ ~lastEvent'.rejected
        /\ lastEvent'.op \notin {"create", "delete"}) =>
            /\ ~(/\ lastEvent'.op \in {"render", "commit"}
                  /\ lastEvent'.id = editor.id
                  /\ lastEvent'.title = editor.title
                  /\ lastEvent'.content = editor.content)
            /\ (lastEvent'.op \notin {"render", "commit"} =>
                   /\ notes' = notes
                   /\ lastEvent'.writes = 0)]_vars

\* the edit of the bound note is in the collection and in storage
Settled ==
    /\ editor.id # NULL
    /\ NoteOf(notes, editor.id).title = editor.title
    /\ NoteOf(notes, editor.id).content = editor.content
    /\ storage.kind = "array"
    /\ NoteOf(storage.items, editor.id).title = editor.title
    /\ NoteOf(storage.items, editor.id).content = editor.content

\* C19 as stated: an edit of the bound note that is not yet committed leads
\* to the note in the collection and in storage having the editor's title
\* and content.  Leaving the note (another note or none is selected, the
\* note is deleted, the tree is unmounted) and a further edit end the
\* obligation, so that what violates the statement is a note that stays bound
\* and is not edited again and whose edit is never saved.
C19_EditsAreEventuallySaved ==
    (editor.id # NULL /\ session.editAt >= 0 /\ session.commits = 0)
        ~> ((session.commits >= 1 /\ Settled) \/ session.editAt < 0)

\* C21: an id that was given out and is no longer in the collection is not
\* in the collection after any step, the render of an update that a timeout
\* enqueued for that id before the note was deleted included, and once it is
\* out of storage no step writes it back.
C21_DeletedStaysDeleted ==
    [][\A id \in 1..MaxId :
          (id < nextId /\ id \notin Ids(notes)) =>
              /\ id \notin Ids(notes')
              /\ id \notin Ids(storage.items) => id \notin Ids(storage'.items)]_vars

\* a note was deleted after its timeout had run; the update was rendered and
\* the collection written, and the note is neither in the collection nor in
\* storage
C21_Witness ==
    /\ lastEvent.op = "commit"
    /\ ~lastEvent.rejected
    /\ lastEvent.id < nextId
    /\ lastEvent.id \notin Ids(notes)
    /\ lastEvent.id \notin Ids(storage.items)
    /\ notes # << >>

\* C22: the selection is null or the id of a note in the collection.
C22_SelectionNeverDangles ==
    selectedId = NULL \/ selectedId \in Ids(notes)

\* after a create and a query the selected note is in the collection although
\* the list does not show it
C22_Witness ==
    /\ lastEvent.op = "query"
    /\ created = 1
    /\ selectedId # NULL
    /\ selectedId \in Ids(notes)
    /\ selectedId \notin Ids(view)
====
